---- MODULE Spec2Model ----
(***************************************************************************)
(* Model of the IS31FL3731 LED-matrix driver (src/src/lib.rs, the full     *)
(* variant, and src/src/is31fl3731.rs, the minimal variant).               *)
(*                                                                         *)
(* The driver is a straight-line program over two collaborators: a         *)
(* blocking addressed bus write that may fail, and a blocking delay.  Each *)
(* public operation is the list of bus steps its body performs; after      *)
(* every bus write the `?` operator returns the transport's error at once. *)
(* The model runs one call at a time, one bus step per transition, and     *)
(* records the bus trace of every call.  The chip behind the bus (a bank   *)
(* pointer plus per-bank registers) is what the successful writes of the   *)
(* bus history have made of its power-on state.                            *)
(***************************************************************************)
EXTENDS Integers, Sequences, FiniteSets, TLC

(***************************************************************************)
(* Bounds of the model.                                                    *)
(***************************************************************************)
\* clear() is called with frames 0..MaxFrame and with the function bank.
MaxFrame == 0
\* Number of driver calls in one behaviour.
MaxCalls == 2

(***************************************************************************)
(* Constants of the program.                                               *)
(***************************************************************************)
ISSI_COMMAND_REGISTER == 253
ISSI_BANK_FUNCTION_REGISTER == 11
ISSI_REG_SHUTDOWN == 10
ISSI_REG_CONFIG == 0
ISSI_REG_CONFIG_PICTURE_MODE == 0
ISSI_REG_AUDIOSYNC == 6
\* enum Address, cast with `as u8`
Address_GND == 116
Address_VCC == 119
Address_SCL == 117
Address_SDA == 118
Address == {Address_GND, Address_VCC, Address_SCL, Address_SDA}
\* delay_ms(10)
RESET_DELAY_MS == 10
\* vec![0; 25]
ERASE_BUF_LEN == 25
\* for x in 0..6
ERASE_PAGES == 6
\* 0x24 + x*24
PIXEL_BASE == 36
PAGE_STRIDE == 24
\* u8 arithmetic
U8 == 256

(***************************************************************************)
(* Results.  I2cError is opaque to the driver: the model tells the errors  *)
(* of the transport apart by the bus step of the call that raised them, so *)
(* that the error a call returns can be told from any other write's.       *)
(***************************************************************************)
Ok == [tag |-> "Ok", err |-> 0]
Err(e) == [tag |-> "Err", err |-> e]
NoResult == [tag |-> "None", err |-> 0]
Pending == [tag |-> "Pending", err |-> 0]
\* The error the transport returns when the write at bus step n fails.
I2cError(n) == n

(***************************************************************************)
(* Bus steps and bus events.  A step is what the program asks for, an      *)
(* event is a step as it happened on the bus, with its outcome.            *)
(***************************************************************************)
WriteStep(bytes) == [kind |-> "write", bytes |-> bytes, ms |-> 0]
DelayStep(ms) == [kind |-> "delay", bytes |-> <<>>, ms |-> ms]

\* Faulty variant of WriteEvent: every write goes to the GND address.
WriteEvent_to_gnd(addr, bytes, res) ==
    [kind |-> "write", addr |-> Address_GND, bytes |-> bytes, res |-> res, ms |-> 0]

WriteEvent(addr, bytes, res) ==
    [kind |-> "write", addr |-> addr, bytes |-> bytes, res |-> res, ms |-> 0]
DelayEvent(ms) ==
    [kind |-> "delay", addr |-> 0, bytes |-> <<>>, res |-> Ok, ms |-> ms]

(***************************************************************************)
(* The private primitives.                                                 *)
(***************************************************************************)
\* Faulty variant of select_bank: frame 0 is taken to be selected already.
select_bank_cached(bank) ==
    IF bank = 0 THEN <<>> ELSE << WriteStep(<<ISSI_COMMAND_REGISTER, bank>>) >>

select_bank(bank) == << WriteStep(<<ISSI_COMMAND_REGISTER, bank>>) >>

\* Faulty variant of write_register: the register write goes out with no bank select.
write_register_noselect(bank, reg, data) == << WriteStep(<<reg, data>>) >>

\* Faulty variant of write_register: the bank is selected after the register write.
write_register_swapped(bank, reg, data) ==
    << WriteStep(<<reg, data>>) >> \o select_bank(bank)

\* Faulty variant of write_register: the register write is [data, reg].
write_register_data_first(bank, reg, data) ==
    select_bank(bank) \o << WriteStep(<<data, reg>>) >>

write_register(bank, reg, data) ==
    select_bank(bank) \o << WriteStep(<<reg, data>>) >>

(***************************************************************************)
(* The public operations, as the list of bus steps of their bodies.        *)
(***************************************************************************)
\* Faulty variant of reset: the delay comes after the chip has left shutdown.
reset_late_delay ==
    write_register(ISSI_BANK_FUNCTION_REGISTER, ISSI_REG_SHUTDOWN, 0)
    \o write_register(ISSI_BANK_FUNCTION_REGISTER, ISSI_REG_SHUTDOWN, 1)
    \o << DelayStep(RESET_DELAY_MS) >>
    \o write_register(ISSI_BANK_FUNCTION_REGISTER, ISSI_REG_CONFIG,
                      ISSI_REG_CONFIG_PICTURE_MODE)

\* Faulty variant of reset: the two shutdown values are exchanged.
reset_swapped_shutdown ==
    write_register(ISSI_BANK_FUNCTION_REGISTER, ISSI_REG_SHUTDOWN, 1)
    \o << DelayStep(RESET_DELAY_MS) >>
    \o write_register(ISSI_BANK_FUNCTION_REGISTER, ISSI_REG_SHUTDOWN, 0)
    \o write_register(ISSI_BANK_FUNCTION_REGISTER, ISSI_REG_CONFIG,
                      ISSI_REG_CONFIG_PICTURE_MODE)

reset ==
    write_register(ISSI_BANK_FUNCTION_REGISTER, ISSI_REG_SHUTDOWN, 0)
    \o << DelayStep(RESET_DELAY_MS) >>
    \o write_register(ISSI_BANK_FUNCTION_REGISTER, ISSI_REG_SHUTDOWN, 1)
    \o write_register(ISSI_BANK_FUNCTION_REGISTER, ISSI_REG_CONFIG,
                      ISSI_REG_CONFIG_PICTURE_MODE)

\* Faulty variant of reset_minimal: it also takes the chip out of shutdown.
reset_minimal_wakes ==
    write_register(ISSI_BANK_FUNCTION_REGISTER, ISSI_REG_SHUTDOWN, 0)
    \o write_register(ISSI_BANK_FUNCTION_REGISTER, ISSI_REG_SHUTDOWN, 1)

reset_minimal ==
    write_register(ISSI_BANK_FUNCTION_REGISTER, ISSI_REG_SHUTDOWN, 0)

\* Faulty variant of audio_sync: the flag is inverted.
audio_sync_inverted(enable) ==
    LET data == IF enable THEN 0 ELSE 1
    IN  write_register(ISSI_BANK_FUNCTION_REGISTER, ISSI_REG_AUDIOSYNC, data)

\* Faulty variant of audio_sync: the register is written without write_register.
audio_sync_direct(enable) ==
    LET data == IF enable THEN 1 ELSE 0
    IN  << WriteStep(<<ISSI_REG_AUDIOSYNC, data>>) >>

audio_sync(enable) ==
    LET data == IF enable THEN 1 ELSE 0
    IN  write_register(ISSI_BANK_FUNCTION_REGISTER, ISSI_REG_AUDIOSYNC, data)

\* erase_buf[0] = 0x24 + x*24, in u8
\* Faulty variant of page_offset: the pages are 48 registers apart, in u8.
page_offset_stride48(x) == (PIXEL_BASE + x * (2 * PAGE_STRIDE)) % U8

\* Faulty variant of page_offset: the pages are 25 registers apart.
page_offset_wide(x) == (PIXEL_BASE + x * ERASE_BUF_LEN) % U8

page_offset(x) == (PIXEL_BASE + x * PAGE_STRIDE) % U8

\* Faulty variant of erase_buf: the offset is stored at erase_buf[x], not erase_buf[0].
erase_buf_indexed(x) ==
    [i \in 1..ERASE_BUF_LEN |-> IF i <= x + 1 THEN page_offset(i - 1) ELSE 0]

\* erase_buf as it is when iteration x of the loop writes it: it starts as
\* vec![0; 25] and every iteration up to x has overwritten element 0.
RECURSIVE erase_buf(_)
erase_buf(x) ==
    LET before == IF x = 0 THEN [i \in 1..ERASE_BUF_LEN |-> 0]
                           ELSE erase_buf(x - 1)
    IN  [before EXCEPT ![1] = page_offset(x)]

\* Faulty variant of clear: the loop stops one page early.
clear_five_pages(frame_arg) ==
    select_bank(frame_arg)
    \o [i \in 1..(ERASE_PAGES - 1) |-> WriteStep(erase_buf(i - 1))]

\* Faulty variant of clear: the pages are written from the last to the first.
clear_reversed(frame_arg) ==
    select_bank(frame_arg)
    \o [i \in 1..ERASE_PAGES |-> WriteStep(erase_buf(ERASE_PAGES - i))]

clear(frame_arg) ==
    select_bank(frame_arg)
    \o [i \in 1..ERASE_PAGES |-> WriteStep(erase_buf(i - 1))]

(***************************************************************************)
(* The chip behind the bus: one bank pointer, moved by a write to the      *)
(* command register, and the registers of each bank.  A write of n+1 bytes *)
(* stores its n data bytes at consecutive register offsets starting at its *)
(* first byte.  Only writes that succeed reach the chip, so the chip's     *)
(* state is its power-on state followed by the successful writes of the    *)
(* bus history.                                                            *)
(***************************************************************************)
Frames == 0..MaxFrame
Banks == Frames \cup {ISSI_BANK_FUNCTION_REGISTER}
Registers == 0..(U8 - 1)

\* What the chip may hold before the driver first talks to it: the bank
\* pointer and the content of every register.  An active chip with the
\* function bank selected, and a chip full of 0xFF pointing at frame 0.
PowerOn ==
    { [bank |-> ISSI_BANK_FUNCTION_REGISTER, fill |-> 1],
      [bank |-> 0, fill |-> 255] }

ChipInit(p) ==
    [bank |-> p.bank, regs |-> [b \in Banks |-> [r \in Registers |-> p.fill]]]

ChipWrite(c, bytes) ==
    IF bytes[1] = ISSI_COMMAND_REGISTER
    THEN [c EXCEPT !.bank = bytes[2]]
    ELSE IF c.bank \notin DOMAIN c.regs
    THEN c
    ELSE [c EXCEPT !.regs[c.bank] =
            [r \in {(bytes[1] + k) % U8 : k \in 0..(Len(bytes) - 2)} |->
                bytes[((r - bytes[1]) % U8) + 2]] @@ @]

\* The two power-on chips, built once.
PowerOnChip == [p \in PowerOn |-> ChipInit(p)]

\* The chip c after the bus events evs: the successful writes, in order.
RECURSIVE ChipAfter(_, _)
ChipAfter(c, evs) ==
    IF evs = <<>> THEN c
    ELSE LET ev == Head(evs)
         IN  ChipAfter(IF ev.kind = "write" /\ ev.res = Ok
                          THEN ChipWrite(c, ev.bytes) ELSE c,
                       Tail(evs))

(***************************************************************************)
(* State.                                                                  *)
(***************************************************************************)
VARIABLES
    variant,    \* "full" (lib.rs) or "minimal" (is31fl3731.rs)
    address,    \* the driver's address field
    frame,      \* the driver's frame field
    power_on,   \* what the chip at `address` held before the first call
    op,         \* the call in progress, or the last call made
    pc,         \* 0: no call in progress; k: about to perform step k of op
    trace,      \* bus events of the call in progress / of the last call
    result,     \* NoResult, Pending, or what the call returned: Ok or Err(e)
    history     \* op, trace and result of every earlier call, oldest first

vars == <<variant, address, frame, power_on, op, pc, trace, result, history>>

NoOp == [name |-> "none", enable |-> FALSE, frame |-> 0]
ResetOp == [name |-> "reset", enable |-> FALSE, frame |-> 0]
AudioSyncOp(enable) == [name |-> "audio_sync", enable |-> enable, frame |-> 0]
ClearOp(f) == [name |-> "clear", enable |-> FALSE, frame |-> f]
\* Direct calls of the two private primitives.
SelectBankOp(bank) == [name |-> "select_bank", bank |-> bank]
WriteRegisterOp(bank, reg, data) ==
    [name |-> "write_register", bank |-> bank, reg |-> reg, data |-> data]

\* Faulty variant of Body: audio_sync and clear first reset a chip that no
\* earlier call has reset.
Body_resets_first(o) ==
    LET was_reset == \E i \in DOMAIN history :
                        history[i].op.name = "reset" /\ history[i].result = Ok
        body == CASE o.name = "reset" ->
                       IF variant = "full" THEN reset ELSE reset_minimal
                  [] o.name = "audio_sync" -> audio_sync(o.enable)
                  [] o.name = "clear" -> clear(o.frame)
                  [] OTHER -> <<>>
    IN  IF o.name \in {"audio_sync", "clear"} /\ ~was_reset
        THEN reset \o body
        ELSE body

\* The bus steps of the body of call o.
Body(o) ==
    CASE o.name = "reset" -> IF variant = "full" THEN reset ELSE reset_minimal
      [] o.name = "audio_sync" -> audio_sync(o.enable)
      [] o.name = "clear" -> clear(o.frame)
      [] o.name = "select_bank" -> select_bank(o.bank)
      [] o.name = "write_register" -> write_register(o.bank, o.reg, o.data)
      [] OTHER -> <<>>

\* IS31FL3731::new
new(a) == [frame |-> 0, address |-> a]

Init ==
    /\ variant \in {"full", "minimal"}
    /\ \E a \in Address :
         /\ address = new(a).address
         /\ frame = new(a).frame
    /\ power_on \in PowerOn
    /\ op = NoOp
    /\ pc = 0
    /\ trace = <<>>
    /\ result = NoResult
    /\ history = <<>>

(***************************************************************************)
(* Entering an operation.                                                  *)
(***************************************************************************)
ncalls == IF op = NoOp THEN 0 ELSE Len(history) + 1

\* Faulty variant of Enter: clear(f) stores f in the frame field.
Enter_stores_frame(o) ==
    /\ pc = 0
    /\ ncalls < MaxCalls
    /\ op' = o
    /\ pc' = 1
    /\ trace' = <<>>
    /\ result' = Pending
    /\ history' = IF op = NoOp THEN history
                  ELSE Append(history,
                              [op |-> op, trace |-> trace, result |-> result])
    /\ frame' = IF o.name = "clear" THEN o.frame ELSE frame
    /\ UNCHANGED <<variant, address, power_on>>

Enter(o) ==
    /\ pc = 0
    /\ ncalls < MaxCalls
    /\ op' = o
    /\ pc' = 1
    /\ trace' = <<>>
    /\ result' = Pending
    /\ history' = IF op = NoOp THEN history
                  ELSE Append(history,
                              [op |-> op, trace |-> trace, result |-> result])
    /\ UNCHANGED <<variant, address, frame, power_on>>

CallReset == Enter(ResetOp)

CallAudioSync ==
    /\ variant = "full"
    /\ \E enable \in BOOLEAN : Enter(AudioSyncOp(enable))

CallClear ==
    /\ variant = "full"
    /\ \E f \in Banks : Enter(ClearOp(f))

(***************************************************************************)
(* One bus step of the call in progress.                                   *)
(***************************************************************************)
Running == pc > 0
Step == Body(op)[pc]
\* After a step that did not fail: the next step or, after the last of the
\* body's n steps, `Ok(())`.
AfterStep(n) ==
    IF pc = n
    THEN /\ pc' = 0
         /\ result' = Ok
    ELSE /\ pc' = pc + 1
         /\ UNCHANGED result

\* self.i2c.write(self.address as u8, ...) returned Ok
I2cWriteOk ==
    /\ Running
    /\ LET body == Body(op)
       IN  /\ body[pc].kind = "write"
           /\ trace' = Append(trace, WriteEvent(address, body[pc].bytes, Ok))
           /\ AfterStep(Len(body))
    /\ UNCHANGED <<variant, address, frame, power_on, op, history>>

\* Faulty variant of I2cWriteErr: the error is dropped and the body carries on.
I2cWriteErrIgnored ==
    /\ Running
    /\ LET body == Body(op)
       IN  /\ body[pc].kind = "write"
           /\ trace' = Append(trace, WriteEvent(address, body[pc].bytes,
                                                 Err(I2cError(pc))))
           /\ AfterStep(Len(body))
    /\ UNCHANGED <<variant, address, frame, power_on, op, history>>

\* self.i2c.write(self.address as u8, ...)? returned Err(e): `?` returns it
I2cWriteErr ==
    /\ Running
    /\ LET step == Step
           e == I2cError(pc)
       IN  /\ step.kind = "write"
           /\ trace' = Append(trace, WriteEvent(address, step.bytes, Err(e)))
           /\ result' = Err(e)
    /\ pc' = 0
    /\ UNCHANGED <<variant, address, frame, power_on, op, history>>

\* self.delay.delay_ms(10)
Delay ==
    /\ Running
    /\ LET body == Body(op)
       IN  /\ body[pc].kind = "delay"
           /\ trace' = Append(trace, DelayEvent(body[pc].ms))
           /\ AfterStep(Len(body))
    /\ UNCHANGED <<variant, address, frame, power_on, op, history>>

(***************************************************************************)
(* The chip, as the bus history has left it.                               *)
(***************************************************************************)
RECURSIVE Events(_)
\* The bus events of the calls h, oldest first.
Events(h) == IF h = <<>> THEN <<>> ELSE Head(h).trace \o Events(Tail(h))

\* The chip when the call in progress (or the last call) started.
ChipAtCall == ChipAfter(PowerOnChip[power_on], Events(history))
\* The chip now.
Chip == ChipAfter(ChipAtCall, trace)

Next ==
    \/ CallReset
    \/ CallAudioSync
    \/ CallClear
    \/ I2cWriteOk
    \/ I2cWriteErr
    \/ Delay

Spec == Init /\ [][Next]_vars

(***************************************************************************)
(* The private primitives called on their own, with arguments drawn from   *)
(* ByteSamples: one such call on a freshly constructed driver, beside the  *)
(* behaviours of the public operations.                                    *)
(***************************************************************************)
ByteSamples == {0, ISSI_BANK_FUNCTION_REGISTER, ISSI_COMMAND_REGISTER, U8 - 1}

CallSelectBank ==
    /\ op = NoOp
    /\ \E bank \in ByteSamples : Enter(SelectBankOp(bank))

CallWriteRegister ==
    /\ op = NoOp
    /\ \E bank \in ByteSamples, reg \in ByteSamples, data \in ByteSamples :
         Enter(WriteRegisterOp(bank, reg, data))

PrimitiveCalled == op.name \in {"select_bank", "write_register"}

NextWithPrimitives ==
    \/ ~PrimitiveCalled /\ CallReset
    \/ ~PrimitiveCalled /\ CallAudioSync
    \/ ~PrimitiveCalled /\ CallClear
    \/ CallSelectBank
    \/ CallWriteRegister
    \/ I2cWriteOk
    \/ I2cWriteErr
    \/ Delay

SpecWithPrimitives == Init /\ [][NextWithPrimitives]_vars

(***************************************************************************)
(* The driver built with one address.  The chip behind the bus does not    *)
(* look at the address of a write, so what a call does to the chip's       *)
(* registers is checked with the address fixed.                            *)
(***************************************************************************)
InitOneAddress == Init /\ address = new(Address_GND).address

SpecOneAddress == InitOneAddress /\ [][Next]_vars

(***************************************************************************)
(* Vocabulary of the properties.                                           *)
(***************************************************************************)
Returned == pc = 0 /\ result # NoResult
ReturnedOk == pc = 0 /\ result = Ok
ReturnedErr == pc = 0 /\ result.tag = "Err"
Full == variant = "full"
HasPrev == history # <<>>
Prev == history[Len(history)]

\* A successful write of `bytes` to the driver's address.
Wrote(ev, bytes) ==
    /\ ev.kind = "write"
    /\ ev.addr = address
    /\ ev.bytes = bytes
    /\ ev.res = Ok

IsWrite(ev) == ev.kind = "write"
IsBankSelect(ev) == IsWrite(ev) /\ Len(ev.bytes) = 2 /\ ev.bytes[1] = 253
IsRegisterWrite(ev) == IsWrite(ev) /\ ev.bytes[1] # 253
WriteCount(t) == Cardinality({i \in DOMAIN t : IsWrite(t[i])})
DelayCount(t) == Cardinality({i \in DOMAIN t : t[i].kind = "delay"})
Zeros24 == [j \in 1..24 |-> 0]
PageStarts == <<36, 60, 84, 108, 132, 156>>

(***************************************************************************)
(* C1: a full-variant reset() that returns Ok has issued exactly the six   *)
(* writes [0xFD,0x0B], [0x0A,0x00], [0xFD,0x0B], [0x0A,0x01], [0xFD,0x0B], *)
(* [0x00,0x00] to the configured address, in this order, with exactly one  *)
(* delay, of at least 10 ms, between the second and the third write.       *)
(***************************************************************************)
C1_ResetTrace ==
    (Full /\ op.name = "reset" /\ ReturnedOk) =>
        /\ Len(trace) = 7
        /\ Wrote(trace[1], <<253, 11>>)
        /\ Wrote(trace[2], <<10, 0>>)
        /\ trace[3].kind = "delay" /\ trace[3].ms >= 10
        /\ Wrote(trace[4], <<253, 11>>)
        /\ Wrote(trace[5], <<10, 1>>)
        /\ Wrote(trace[6], <<253, 11>>)
        /\ Wrote(trace[7], <<0, 0>>)
        /\ WriteCount(trace) = 6
        /\ DelayCount(trace) = 1

C1_Witness == Full /\ op.name = "reset" /\ ReturnedOk /\ address = 119

(***************************************************************************)
(* C2: clear(f) that returns Ok has issued exactly seven writes to the     *)
(* configured address: [0xFD, f], then six writes of 25 bytes whose first  *)
(* bytes are 36, 60, 84, 108, 132, 156 in this order and whose other 24    *)
(* bytes are zero.                                                         *)
(***************************************************************************)
C2_ClearTrace ==
    (op.name = "clear" /\ ReturnedOk) =>
        /\ Len(trace) = 7
        /\ WriteCount(trace) = 7
        /\ Wrote(trace[1], <<253, op.frame>>)
        /\ \A i \in 1..6 :
             /\ Len(trace[i + 1].bytes) = 25
             /\ Wrote(trace[i + 1], <<PageStarts[i]>> \o Zeros24)

C2_Witness == op.name = "clear" /\ ReturnedOk /\ op.frame = 11

(***************************************************************************)
(* C3: audio_sync(true) that returns Ok has issued exactly [0xFD,0x0B]     *)
(* then [0x06,0x01], audio_sync(false) exactly [0xFD,0x0B] then            *)
(* [0x06,0x00], to the configured address, with no delay.                  *)
(***************************************************************************)
C3_AudioSyncTrace ==
    (op.name = "audio_sync" /\ ReturnedOk) =>
        /\ Len(trace) = 2
        /\ Wrote(trace[1], <<253, 11>>)
        /\ op.enable => Wrote(trace[2], <<6, 1>>)
        /\ ~op.enable => Wrote(trace[2], <<6, 0>>)
        /\ DelayCount(trace) = 0

C3_Witness ==
    /\ op.name = "audio_sync" /\ op.enable /\ ReturnedOk
    /\ HasPrev /\ Prev.op.name = "audio_sync" /\ ~Prev.op.enable
    /\ Prev.result = Ok

\* The bytes of the writes of a call o when nothing fails.
ExpectedWrites(o) ==
    CASE o.name = "reset" /\ Full ->
           << <<253, 11>>, <<10, 0>>, <<253, 11>>, <<10, 1>>,
              <<253, 11>>, <<0, 0>> >>
      [] o.name = "reset" /\ ~Full -> << <<253, 11>>, <<10, 0>> >>
      [] o.name = "audio_sync" ->
           << <<253, 11>>, <<6, IF o.enable THEN 1 ELSE 0>> >>
      [] o.name = "clear" ->
           << <<253, o.frame>> >>
           \o [i \in 1..6 |-> <<PageStarts[i]>> \o Zeros24]
      [] OTHER -> <<>>

WritesOf(t) ==
    LET F[i \in 0..Len(t)] ==
            IF i = 0 THEN <<>>
            ELSE IF IsWrite(t[i]) THEN Append(F[i - 1], t[i].bytes)
            ELSE F[i - 1]
    IN  F[Len(t)]

(***************************************************************************)
(* C4: the first write of a call that fails ends the call: the call        *)
(* returns the error the transport returned for that write, nothing is     *)
(* issued after it (no write, no delay), and the failed write is not       *)
(* issued again: a call whose k-th write (from 0) failed has made k+1      *)
(* write attempts, the first k of them successful, and they are the first  *)
(* k+1 writes of the operation.                                            *)
(***************************************************************************)
C4_FirstErrorEndsCall ==
    /\ \A i \in DOMAIN trace :
         trace[i].res # Ok =>
            /\ IsWrite(trace[i])
            /\ i = Len(trace)
            /\ pc = 0
            /\ result = trace[i].res
    /\ ReturnedErr =>
         /\ trace # <<>>
         /\ trace[Len(trace)].res = result
         /\ \A i \in 1..(Len(trace) - 1) : trace[i].res = Ok
         /\ LET k == Cardinality({i \in DOMAIN trace :
                                    IsWrite(trace[i]) /\ trace[i].res = Ok})
            IN  /\ WriteCount(trace) = k + 1
                /\ k + 1 <= Len(ExpectedWrites(op))
                /\ WritesOf(trace) = SubSeq(ExpectedWrites(op), 1, k + 1)

C4_Witness ==
    /\ ReturnedErr /\ op.name = "clear" /\ Len(trace) = 4
    /\ HasPrev /\ Prev.op.name = "reset" /\ Prev.result.tag = "Err"
    /\ result # Prev.result
    /\ Len(Prev.trace) = 5

(***************************************************************************)
(* C5: a minimal-variant reset() that returns Ok has issued exactly        *)
(* [0xFD,0x0B] then [0x0A,0x00] and nothing else, and leaves the chip's    *)
(* shutdown register at 0x00.                                              *)
(***************************************************************************)
C5_MinimalReset ==
    (~Full /\ op.name = "reset" /\ ReturnedOk) =>
        /\ Len(trace) = 2
        /\ Wrote(trace[1], <<253, 11>>)
        /\ Wrote(trace[2], <<10, 0>>)
        /\ Chip.regs[11][10] = 0

C5_Witness ==
    ~Full /\ op.name = "reset" /\ ReturnedOk /\ power_on.fill = 1

(***************************************************************************)
(* C6, as claimed: every register write (a write whose first byte is not   *)
(* 0xFD) is immediately preceded, within the same call, by a bank-select   *)
(* write to the same device.  The second to sixth page writes of clear     *)
(* follow a page write, not a bank select.                                 *)
(***************************************************************************)
C6_Original ==
    \A i \in DOMAIN trace :
        IsRegisterWrite(trace[i]) =>
            /\ i > 1
            /\ IsBankSelect(trace[i - 1])
            /\ trace[i - 1].addr = trace[i].addr

(***************************************************************************)
(* C6, amended: every register write is preceded, within the same call, by *)
(* a successful bank-select write to the same device, with nothing between *)
(* them but successful page writes of the same clear call; the two-byte    *)
(* register writes of reset and audio_sync and the first page write of     *)
(* clear follow their bank select immediately.                             *)
(***************************************************************************)
C6_BankSelectedBefore ==
    \A i \in DOMAIN trace :
        IsRegisterWrite(trace[i]) =>
            /\ \E j \in 1..(i - 1) :
                 /\ IsBankSelect(trace[j])
                 /\ trace[j].res = Ok
                 /\ trace[j].addr = trace[i].addr
                 /\ \A k \in (j + 1)..(i - 1) :
                      /\ op.name = "clear"
                      /\ IsRegisterWrite(trace[k])
                      /\ Len(trace[k].bytes) = 25
                      /\ trace[k].res = Ok
            /\ (Len(trace[i].bytes) = 2 \/ i = 2) =>
                 /\ i > 1
                 /\ IsBankSelect(trace[i - 1])

C6_Witness ==
    /\ op.name = "clear" /\ Len(trace) >= 3
    /\ IsRegisterWrite(trace[3]) /\ IsRegisterWrite(trace[2])
    /\ HasPrev /\ Prev.result.tag = "Err"

\* The delay of the call in progress is about to start, or has just ended.
InDelay ==
    \/ pc > 0 /\ Step.kind = "delay"
    \/ trace # <<>> /\ trace[Len(trace)].kind = "delay"

(***************************************************************************)
(* C7: a full-variant reset() that returns Ok, from any chip state, leaves *)
(* the function bank's shutdown register at 0x01 and its config register   *)
(* at 0x00; and the shutdown register is 0x00 from the moment the delay    *)
(* starts until it ends.                                                   *)
(***************************************************************************)
C7_ResetCycle ==
    /\ (Full /\ op.name = "reset" /\ ReturnedOk) =>
         /\ Chip.regs[11][10] = 1
         /\ Chip.regs[11][0] = 0
    /\ (Full /\ op.name = "reset" /\ InDelay) =>
         Chip.regs[11][10] = 0

C7_Witness ==
    /\ Full /\ op.name = "reset" /\ ReturnedOk
    /\ trace[3].kind = "delay"
    /\ power_on.fill = 255 /\ power_on.bank = 0
    /\ ~HasPrev

\* The chip when the call before this one started.
ChipBeforePrev ==
    ChipAfter(PowerOnChip[power_on],
              Events(SubSeq(history, 1, Len(history) - 1)))

(***************************************************************************)
(* C8: a successful call that directly follows a call of the same          *)
(* operation with the same argument, failed at any write or successful,    *)
(* leaves the chip (bank pointer and every register) exactly as this one   *)
(* successful call alone would have left it from the state the chip had    *)
(* before the earlier call.                                                *)
(***************************************************************************)
C8_RetryIdempotent ==
    (ReturnedOk /\ HasPrev /\ Prev.op = op) =>
        Chip = ChipAfter(ChipBeforePrev, trace)

C8_Witness ==
    /\ ReturnedOk /\ HasPrev /\ Prev.op = op
    /\ op.name = "clear" /\ op.frame = 0
    /\ Prev.result.tag = "Err" /\ Len(Prev.trace) = 4
    /\ power_on.fill = 255
    /\ Chip # ChipAtCall

\* The positions of the 25-byte writes of a trace.
PageWrites(t) == {i \in DOMAIN t : IsWrite(t[i]) /\ Len(t[i].bytes) = 25}

(***************************************************************************)
(* C9: two clear(f) calls in a row with the same f that both return Ok     *)
(* have the same bus trace, and each holds the same six 25-byte page       *)
(* writes in the same order.                                               *)
(***************************************************************************)
C9_ClearTwice ==
    (op.name = "clear" /\ ReturnedOk /\ HasPrev /\ Prev.op = op
        /\ Prev.result = Ok) =>
        /\ trace = Prev.trace
        /\ PageWrites(trace) = 2..7
        /\ PageWrites(Prev.trace) = 2..7
        /\ \A i \in 2..7 : trace[i].bytes = Prev.trace[i].bytes

C9_Witness ==
    /\ op.name = "clear" /\ ReturnedOk /\ HasPrev /\ Prev.op = op
    /\ Prev.result = Ok /\ op.frame = 0 /\ address = 117

(***************************************************************************)
(* C10, as claimed: two audio_sync calls in a row with the same value that *)
(* both return Ok have the same bus trace, and each trace is a single bus  *)
(* write.  Each is two writes: the bank select and the register write.     *)
(***************************************************************************)
AudioSyncTwice ==
    /\ op.name = "audio_sync" /\ ReturnedOk /\ HasPrev /\ Prev.op = op
    /\ Prev.result = Ok

C10_Original ==
    AudioSyncTwice =>
        /\ trace = Prev.trace
        /\ WriteCount(trace) = 1
        /\ WriteCount(Prev.trace) = 1

(***************************************************************************)
(* C10, amended: two audio_sync calls in a row with the same value that    *)
(* both return Ok have the same bus trace, and each trace is two bus       *)
(* writes: the bank select [0xFD,0x0B], then the single register write     *)
(* [0x06, value].                                                          *)
(***************************************************************************)
C10_AudioSyncTwice ==
    AudioSyncTwice =>
        /\ trace = Prev.trace
        /\ WriteCount(trace) = 2 /\ Len(trace) = 2
        /\ WriteCount(Prev.trace) = 2 /\ Len(Prev.trace) = 2
        /\ IsBankSelect(trace[1])
        /\ IsRegisterWrite(trace[2])
        /\ trace[2].bytes = <<6, IF op.enable THEN 1 ELSE 0>>

C10_Witness == AudioSyncTwice /\ op.enable /\ power_on.fill = 255

\* The outcomes of the bus steps of a trace, in order.
Outcomes(t) == [i \in DOMAIN t |-> t[i].res]
\* The function bank's shutdown register says "shutdown".
InShutdown(c) == c.regs[11][10] = 0

(***************************************************************************)
(* C11: the driver enforces no state precondition.  Whatever calls came    *)
(* before and whatever state the chip is in, a call whose writes all       *)
(* succeed returns Ok after exactly the writes of its operation; a call    *)
(* returns an error only if one of its own writes failed; and two calls of *)
(* the same operation with the same argument whose bus steps had the same  *)
(* outcomes have the same bus trace and the same result.                   *)
(***************************************************************************)
C11_NoStatePrecondition ==
    Returned =>
        /\ result.tag \in {"Ok", "Err"}
        /\ result.tag = "Err" =>
             \E i \in DOMAIN trace : IsWrite(trace[i]) /\ trace[i].res = result
        /\ (\A i \in DOMAIN trace : trace[i].res = Ok) =>
             /\ result = Ok
             /\ WritesOf(trace) = ExpectedWrites(op)
        /\ \A h \in DOMAIN history :
             (history[h].op = op
                /\ Outcomes(history[h].trace) = Outcomes(trace)) =>
                /\ history[h].trace = trace
                /\ history[h].result = result

\* audio_sync succeeds on a chip that a failed reset has left in shutdown.
C11_Witness ==
    /\ op.name = "audio_sync" /\ ReturnedOk
    /\ HasPrev /\ Prev.op.name = "reset" /\ Prev.result.tag = "Err"
    /\ InShutdown(ChipAtCall)

(***************************************************************************)
(* C12: write_register(bank, reg, data), for all sampled bytes, issues     *)
(* exactly [0xFD, bank] then [reg, data] when both writes succeed; when    *)
(* the bank-select write fails the [reg, data] write is not attempted and  *)
(* the call returns that error after exactly one write attempt.            *)
(***************************************************************************)
C12_WriteRegister ==
    (op.name = "write_register" /\ Returned) =>
        /\ Len(trace) >= 1
        /\ trace[1].kind = "write"
        /\ trace[1].addr = address
        /\ trace[1].bytes = <<253, op.bank>>
        /\ trace[1].res = Ok =>
             /\ Len(trace) = 2
             /\ trace[2].kind = "write"
             /\ trace[2].addr = address
             /\ trace[2].bytes = <<op.reg, op.data>>
             /\ result = trace[2].res
        /\ trace[1].res # Ok =>
             /\ Len(trace) = 1
             /\ result = trace[1].res
             /\ result.tag = "Err"
        /\ ReturnedOk => WriteCount(trace) = 2

\* The bank select of write_register(0, 0x0B, 0xFF) failed.
C12_Witness ==
    /\ op.name = "write_register" /\ ReturnedErr /\ Len(trace) = 1
    /\ op.bank = 0 /\ op.reg = 11 /\ op.data = 255

\* Every write of a trace went to the driver's address.
AllTo(t, a) == \A i \in DOMAIN t : IsWrite(t[i]) => t[i].addr = a

(***************************************************************************)
(* C13: for each of the four addresses (GND = 0x74, VCC = 0x77,            *)
(* SCL = 0x75, SDA = 0x76) and every sampled bank b, select_bank(b) issues *)
(* exactly one write, of [0xFD, b], to the driver's address; and every     *)
(* write of every operation goes to the address the driver was built       *)
(* with and to no other.                                                   *)
(***************************************************************************)
C13_SelectBankAddress ==
    /\ address \in {116, 119, 117, 118}
    /\ (op.name = "select_bank" /\ Returned) =>
          /\ Len(trace) = 1
          /\ trace[1].kind = "write"
          /\ trace[1].addr = address
          /\ trace[1].bytes = <<253, op.bank>>
          /\ result = trace[1].res
    /\ AllTo(trace, address)
    /\ \A h \in DOMAIN history : AllTo(history[h].trace, address)

\* select_bank(0xFF) succeeded on a driver built with the SDA address.
C13_Witness ==
    /\ op.name = "select_bank" /\ ReturnedOk
    /\ op.bank = 255 /\ address = 118
    /\ WriteCount(trace) = 1

\* The pixel registers 0x24..0xB3 of a frame.
PixelRegisters == 36..179
\* The registers at which the write of bytes stores its data bytes.
Stored(bytes) == {(bytes[1] + k) % 256 : k \in 0..(Len(bytes) - 2)}
\* The registers of a bank after some of them have been zeroed.
Zeroed(regs, rs) == [r \in DOMAIN regs |-> IF r \in rs THEN 0 ELSE regs[r]]

(***************************************************************************)
(* C14: with a multi-byte write storing its data bytes at consecutive      *)
(* register offsets from its first byte, a clear(f) that returns Ok leaves *)
(* each of the 144 registers 0x24..0xB3 of bank f zero, has written each   *)
(* of them exactly once (no overlap, no gap), and has changed no register  *)
(* outside that range and no register of another bank.                     *)
(***************************************************************************)
C14_ClearZeroesFrame ==
    (op.name = "clear" /\ ReturnedOk) =>
        LET before == ChipAtCall
            after == ChipAfter(before, trace)
            pages == PageWrites(trace)
        IN  /\ Cardinality(PixelRegisters) = 144
            /\ after.bank = op.frame
            /\ \A r \in PixelRegisters : after.regs[op.frame][r] = 0
            /\ UNION {Stored(trace[i].bytes) : i \in pages} = PixelRegisters
            /\ \A i \in pages, j \in pages :
                 i < j => Stored(trace[i].bytes) \cap Stored(trace[j].bytes) = {}
            /\ after.regs[op.frame] = Zeroed(before.regs[op.frame], PixelRegisters)
            /\ \A b \in Banks \ {op.frame} : after.regs[b] = before.regs[b]

\* clear(0) succeeded on a frame whose registers all held 0xFF.
C14_Witness ==
    /\ op.name = "clear" /\ ReturnedOk /\ op.frame = 0
    /\ power_on.fill = 255 /\ history = <<>>
    /\ LET after == Chip
       IN  /\ after.regs[0][35] = 255 /\ after.regs[0][36] = 0
           /\ after.regs[0][179] = 0 /\ after.regs[0][180] = 255

\* The registers of pages 0..n-1.
Pages(n) == 36..(36 + 24 * n - 1)

(***************************************************************************)
(* C15: when clear(f) fails, the pages already zeroed are a prefix.  If    *)
(* the bank-select write failed, no page write was issued and the chip is  *)
(* untouched.  If page write i (0..5) was the first to fail, exactly the   *)
(* pages 0..i-1 of bank f were written, in order, the registers of pages   *)
(* i..5 and of every other bank are as they were, and the failed write is  *)
(* the last bus event of the call: nothing undoes or completes the clear.  *)
(***************************************************************************)
C15_ClearFailsWithPrefix ==
    (op.name = "clear" /\ ReturnedErr) =>
        LET before == ChipAtCall
            after == ChipAfter(before, trace)
            n == Len(trace)
            i == n - 2
        IN  /\ n \in 1..7
            /\ WriteCount(trace) = n
            /\ trace[n].res = result
            /\ \A k \in 1..(n - 1) : trace[k].res = Ok
            /\ trace[1].bytes = <<253, op.frame>>
            /\ n = 1 => PageWrites(trace) = {} /\ after = before
            /\ n >= 2 =>
                 /\ i \in 0..5
                 /\ PageWrites(trace) = 2..n
                 /\ \A k \in 2..n :
                      trace[k].bytes = <<PageStarts[k - 1]>> \o Zeros24
                 /\ UNION {Stored(trace[k].bytes) : k \in 2..(n - 1)} = Pages(i)
                 /\ after.bank = op.frame
                 /\ after.regs[op.frame] = Zeroed(before.regs[op.frame], Pages(i))
                 /\ \A b \in Banks \ {op.frame} : after.regs[b] = before.regs[b]

\* clear(0) failed at page 3 on a frame whose registers all held 0xFF:
\* pages 0..2 are zero, page 3 onwards still holds 0xFF.
C15_Witness ==
    /\ op.name = "clear" /\ ReturnedErr /\ op.frame = 0 /\ Len(trace) = 5
    /\ power_on.fill = 255 /\ history = <<>>
    /\ LET after == Chip
       IN  /\ after.regs[0][36] = 0 /\ after.regs[0][107] = 0
           /\ after.regs[0][108] = 255 /\ after.regs[0][179] = 255

(***************************************************************************)
(* C16: construction issues no bus write and no delay and sets frame = 0;  *)
(* no step of any reset, audio_sync or clear call, successful or failed,   *)
(* changes the frame field (clear(f) does not store f) or the address      *)
(* field, so after any sequence of calls frame is 0 and address is the     *)
(* address given at construction.                                          *)
(***************************************************************************)
C16_FrameAndAddressFixed ==
    /\ (frame = 0 /\ address \in Address /\ op = NoOp
          /\ trace = <<>> /\ history = <<>>)
    /\ [][frame' = frame /\ address' = address]_vars

\* clear(0x0B) has returned Ok after a failed call and frame is still 0.
C16_Witness ==
    /\ op.name = "clear" /\ ReturnedOk /\ op.frame = 11
    /\ HasPrev /\ Prev.result.tag = "Err"
    /\ frame = 0 /\ frame # op.frame

\* A successful write to a register other than the command register.
IsDataWrite(ev) == IsWrite(ev) /\ ev.res = Ok /\ ev.bytes[1] # 253
\* The chip's bank pointer after the events evs, from the pointer b0: the
\* bank of the last successful [0xFD, bank] write.
BankPointer(b0, evs) ==
    LET sel == {k \in DOMAIN evs :
                   IsWrite(evs[k]) /\ evs[k].res = Ok /\ evs[k].bytes[1] = 253}
    IN  IF sel = {} THEN b0
        ELSE evs[CHOOSE k \in sel : \A j \in sel : j <= k].bytes[2]
\* The bank the data writes of an operation are meant for.
IntendedBank(o) == IF o.name = "clear" THEN o.frame ELSE 11

(***************************************************************************)
(* C17: with the chip's one bank pointer changing only on a successful     *)
(* [0xFD, bank] write, in every sequence of reset, audio_sync and clear    *)
(* calls with any write failures, each successful data write happens while *)
(* the bank pointer is the bank its operation intends: 0x0B for reset and  *)
(* audio_sync, f for clear(f).  A failed write is the last bus event of    *)
(* its call, so no data write follows a failed bank select; and an         *)
(* audio_sync after clear(f), f a frame, leaves bank f as it was.          *)
(***************************************************************************)
C17_WritesLandInIntendedBank ==
    LET before == ChipAtCall
        after == ChipAfter(before, trace)
    IN  /\ after.bank = BankPointer(before.bank, trace)
        /\ \A i \in DOMAIN trace :
             /\ IsDataWrite(trace[i]) =>
                  BankPointer(before.bank, SubSeq(trace, 1, i - 1))
                      = IntendedBank(op)
             /\ (IsWrite(trace[i]) /\ trace[i].res # Ok) => i = Len(trace)
        /\ (trace # <<>> /\ trace[1].res # Ok) => after = before
        /\ (op.name = "audio_sync" /\ HasPrev /\ Prev.op.name = "clear"
              /\ Prev.op.frame # 11) =>
               after.regs[Prev.op.frame] = before.regs[Prev.op.frame]

\* audio_sync(true) succeeded right after a successful clear(0) on a chip
\* whose registers held 0xFF: the value is in the function bank, frame 0
\* holds what clear left.
C17_Witness ==
    /\ op = AudioSyncOp(TRUE) /\ ReturnedOk
    /\ HasPrev /\ Prev.op = ClearOp(0) /\ Prev.result = Ok
    /\ power_on.fill = 255 /\ Len(history) = 1
    /\ LET after == Chip
       IN  /\ after.regs[11][6] = 1
           /\ after.regs[0][6] = 255
           /\ after.regs[0][36] = 0

(***************************************************************************)
(* C18: the page start offset 0x24 + x*24, computed in u8, does not wrap   *)
(* for x in 0..5: the six offsets that clear puts in element 0 of its page *)
(* writes are 36, 60, 84, 108, 132, 156, each 24 more than the one before, *)
(* and the last register of the last page, 156 + 23 = 179, is at most 255. *)
(***************************************************************************)
C18_PageOffsetNoWrap ==
    /\ \A x \in 0..5 :
         /\ page_offset(x) = 36 + x * 24
         /\ page_offset(x) = PageStarts[x + 1]
         /\ page_offset(x) + 23 <= 255
    /\ page_offset(5) + 23 = 179
    /\ (op.name = "clear") =>
         \A i \in 2..Len(trace) :
            LET start == trace[i].bytes[1]
            IN  /\ start = page_offset(i - 2)
                /\ start = 36 + (i - 2) * 24
                /\ i > 2 => start = trace[i - 1].bytes[1] + 24
                /\ Stored(trace[i].bytes) = start..(start + 23)
                /\ start + 23 <= 179

\* clear has issued its last page write, at offset 156.
C18_Witness ==
    /\ op.name = "clear" /\ Len(trace) = 7
    /\ trace[7].bytes[1] = 156 /\ trace[7].res = Ok /\ address = 119

====
